---- MODULE Spec2Model ----
(* FreeCell engine of pygame-freecell: the containers of board.py, the      *)
(* transfer protocol, the history of freecell.py and its event handlers.    *)
(* Python lists are objects: Slot.load stores the snapshot's own list in    *)
(* the slot, so a slot and a stored snapshot can hold the SAME list, and    *)
(* list.append then changes both.  The variable alias records that sharing. *)
(*                                                                          *)
(* Spec      the user plays with the primary button and the history keys    *)
(* SpecPeek  the user plays with both buttons and no history keys           *)
(* SpecHistory  the user clicks and presses the history keys, one event in  *)
(*           each frame, for a longer history                               *)
(* SpecWin   as Spec, with enough moves to win and one history step        *)
(* SpecUnit  Slot.put and Slot.receive_from called on bounded inputs        *)
(* SpecDeal  init() deals the program's 52 cards on its 8 columns           *)
EXTENDS Integers, Sequences, FiniteSets, TLC

\* ---------------------------------------------------------------- bounds
\* The program has 4 suits of 13 ranks, 4 reserve, 4 foundation and 8 tableau
\* slots, and unbounded history and peek lists.
MaxRank == 3
NumSuits == 2
NumReserve == 1
NumFoundation == 2
NumTableau == 2
MaxMoves == 2
MaxSteps == 3
MaxPeek == 1
MaxScenMoves == 4
MaxScenSteps == 2
HDstLen == 1
HSrcLen == 2
MaxWinMoves == 4
MaxWinSteps == 1

\* freecell._focus = None, Slot._peeking_at = None
None == -1

VARIABLES
    deck,             \* deck.deck after deck.shuffle()
    stack,            \* slot -> Slot.stack
    alias,            \* slot -> which stored snapshot holds the same list object
    toggle,           \* slot -> ToggleSlot._toggle
    peeking_at,       \* slot -> Slot._peeking_at
    peek_list,        \* freecell._peek
    focus,            \* freecell._focus
    history,          \* freecell.history (past)
    history_current,  \* freecell.history_current
    history_future,   \* freecell.history_future
    pc,               \* position of main(): "events", "won", "crashed"
    changed,          \* accumulator of process_events() in the running frame
    saves,            \* how many times save_board_state has run since init()
    steps,            \* how many times _history_step has loaded a snapshot
    last,             \* observer: the handler that ran last and its results
    rt,               \* observer: confirmed move, then undo, then redo
    scen,             \* observer: moves only, then undos only, then one move
    h                 \* SpecUnit: the call and its result

vars == <<deck, stack, alias, toggle, peeking_at, peek_list, focus, history,
          history_current, history_future, pc, changed, saves, steps, last,
          rt, scen, h>>

gameVars == <<deck, stack, alias, toggle, peeking_at, peek_list, focus, history,
              history_current, history_future, pc, changed, saves, steps, last,
              rt, scen>>

\* ------------------------------------------------------------------ cards
Max(a, b) == IF a >= b THEN a ELSE b
Min(a, b) == IF a <= b THEN a ELSE b

Card(number, suit) == [number |-> number, suit |-> suit]

\* deck.py:291  [Card(number=i, suit=Suits.suits[s]) for s in range(4) for i in range(1, 14)]
DeckSize == NumSuits * MaxRank
SortedDeck == [i \in 1..DeckSize |-> Card(((i - 1) % MaxRank) + 1, (i - 1) \div MaxRank)]
Cards == {SortedDeck[i] : i \in 1..DeckSize}

\* ------------------------------------------------------------------ board
\* freecell.py:198-201, numbered as chain(*board) enumerates them
reserve == 0..(NumReserve - 1)
foundation == NumReserve..(NumReserve + NumFoundation - 1)
tableau == (NumReserve + NumFoundation)..(NumReserve + NumFoundation + NumTableau - 1)
Slots == reserve \cup foundation \cup tableau
ToggleSlots == reserve \cup tableau

Kind(s) == IF s \in reserve THEN "reserve"
           ELSE IF s \in foundation THEN "foundation" ELSE "tableau"

\* ------------------------------------------------------- python list slices
\* s[-k:] for k >= 1
Suffix(s, k) == SubSeq(s, Max(1, Len(s) - k + 1), Len(s))
\* s[:-k] for k >= 1
DropSuffix(s, k) == SubSeq(s, 1, Max(0, Len(s) - k))

is_empty(st) == Len(st) = 0

\* ------------------------------------------------- put_single, per subclass
\* Each is TRUE when put_single appends the card and FALSE when it raises
\* ValueError.

\* FoundationSlot.put_single without the test on the suit
FoundationPutAnySuit(st, card) ==
    IF Len(st) = 0
    THEN card.number = 1
    ELSE card.number = st[Len(st)].number + 1

FoundationPutSingle(st, card) ==
    IF Len(st) = 0
    THEN card.number = 1
    ELSE card.suit = st[Len(st)].suit /\ card.number = st[Len(st)].number + 1

\* ReserveSlot.put_single without the test is_empty()
ReservePutAlways(st, card) == TRUE

ReservePutSingle(st, card) == is_empty(st)

\* TableauSlot.put_single comparing the suits instead of their parities
TableauPutOtherSuit(st, card) ==
    IF Len(st) = 0
    THEN TRUE
    ELSE /\ card.number = st[Len(st)].number - 1
         /\ card.suit # st[Len(st)].suit

\* TableauSlot.put_single without the test on the topmost card
TableauPutAny(st, card) == TRUE

TableauPutSingle(st, card) ==
    IF Len(st) = 0
    THEN TRUE
    ELSE /\ card.number = st[Len(st)].number - 1
         /\ card.suit % 2 # st[Len(st)].suit % 2

put_single(kind, st, card) ==
    CASE kind = "foundation" -> FoundationPutSingle(st, card)
      [] kind = "reserve" -> ReservePutSingle(st, card)
      [] kind = "tableau" -> TableauPutSingle(st, card)

\* The loop of Slot.put: cards are appended in place until one is refused.
RECURSIVE PutLoop(_, _, _)
PutLoop(kind, st, cards) ==
    IF cards = <<>>
    THEN [ok |-> TRUE, stack |-> st]
    ELSE IF put_single(kind, st, Head(cards))
         THEN PutLoop(kind, Append(st, Head(cards)), Tail(cards))
         ELSE [ok |-> FALSE, stack |-> st]

\* Slot.put without revert() in the except clause
PutNoRevertResult(r) ==
    [ok |-> r.ok, stack |-> r.stack, inplace |-> r.stack, reverted |-> FALSE]

PutNoRevert(kind, st, cards) == PutNoRevertResult(PutLoop(kind, st, cards))

\* Slot.put(cards) with a list: ok, the slot's stack afterwards, the contents
\* of the list object the slot held before the call (inplace), and whether
\* revert() replaced that object by the frozen copy.
PutResult(st, r) ==
    [ok |-> r.ok,
     stack |-> IF r.ok THEN r.stack ELSE st,
     inplace |-> r.stack,
     reverted |-> ~r.ok]

put(kind, st, cards) == PutResult(st, PutLoop(kind, st, cards))

\* Slot.pop_from(-k): what is returned and what stays; self.stack is a new list
pop_from(st, k) == [resp |-> Suffix(st, k), stack |-> DropSuffix(st, k)]

\* The loop of Slot.receive_from for k, k-1, ..., 1.  inplace and reverted
\* follow the list object the destination held when the call began.
RECURSIVE ReceiveLoop(_, _, _, _, _, _)

\* one turn of the loop, p being the outcome of self.put(slot[-k:])
ReceiveTry(kind, src, k, inplace, reverted, p) ==
    IF p.ok
    THEN [ok |-> TRUE, dst |-> p.stack, src |-> pop_from(src, k).stack,
          moved |-> pop_from(src, k).resp,
          inplace |-> IF reverted THEN inplace ELSE p.inplace,
          reverted |-> reverted]
    ELSE ReceiveLoop(kind, p.stack, src, k - 1,
                     IF reverted THEN inplace ELSE p.inplace, TRUE)

ReceiveLoop(kind, dst, src, k, inplace, reverted) ==
    IF k <= 0
    THEN [ok |-> FALSE, dst |-> dst, src |-> src, moved |-> <<>>,
          inplace |-> inplace, reverted |-> reverted]
    ELSE ReceiveTry(kind, src, k, inplace, reverted, put(kind, dst, Suffix(src, k)))

SlotReceiveFrom(kind, dst, src, max_cards) ==
    ReceiveLoop(kind, dst, src, max_cards, dst, FALSE)

\* ReserveSlot.receive_from ignores the caller's bound
ReserveReceiveFrom(dst, src, max_cards) == SlotReceiveFrom("reserve", dst, src, 1)

receive_from(kind, dst, src, max_cards) ==
    IF kind = "reserve"
    THEN ReserveReceiveFrom(dst, src, max_cards)
    ELSE SlotReceiveFrom(kind, dst, src, max_cards)

\* ----------------------------------------------- the board and its snapshots
\* A board value B is [stack, alias, history, history_current]: the slots'
\* lists, and the stored snapshots a list.append on a shared list reaches.
\* alias[s] = None: the slot's list is its own; 0: it is history_current[s];
\* i >= 1: it is history[i][s].
Board == [stack |-> stack, alias |-> alias, history |-> history,
          history_current |-> history_current]

\* The board after d.receive_from(s, max_cards) returned r: the destination's
\* appends reach the snapshot that shares its list; pop_from and revert rebind.
BoardReceived(B, d, s, r) ==
    [ok |-> r.ok,
     moved |-> r.moved,
     stack |-> [B.stack EXCEPT ![d] = r.dst,
                               ![s] = IF r.ok THEN r.src ELSE @],
     alias |-> [B.alias EXCEPT ![d] = IF r.reverted THEN None ELSE @,
                               ![s] = IF r.ok THEN None ELSE @],
     history |-> IF B.alias[d] >= 1
                 THEN [B.history EXCEPT ![B.alias[d]][d] = r.inplace]
                 ELSE B.history,
     history_current |-> IF B.alias[d] = 0
                         THEN [B.history_current EXCEPT ![d] = r.inplace]
                         ELSE B.history_current]

BoardReceive(B, d, s, max_cards) ==
    BoardReceived(B, d, s, receive_from(Kind(d), B.stack[d], B.stack[s], max_cards))

count_empty(st, slots) == Cardinality({s \in slots : is_empty(st[s])})

\* push_to_foundation: for tab in tableau for fnd in foundation, in that order
PushPairs == NumTableau * NumFoundation
PushTab(i) == NumReserve + NumFoundation + (i \div NumFoundation)
PushFnd(i) == NumReserve + (i % NumFoundation)

RECURSIVE PushLoop(_, _)

\* the rest of the loop once fnd.receive_from(tab, max_cards=1) returned r
PushNext(B, i, r) ==
    IF r.ok \in BOOLEAN
    THEN PushLoop([stack |-> r.stack, alias |-> r.alias, history |-> r.history,
                   history_current |-> r.history_current], i + 1)
    ELSE B

PushLoop(B, i) ==
    IF i >= PushPairs
    THEN B
    ELSE PushNext(B, i, BoardReceive(B, PushFnd(i), PushTab(i), 1))

push_to_foundation(B) == PushLoop(B, 0)

score(st) == LET RECURSIVE Sum(_)
                 Sum(S) == IF S = {} THEN 0
                           ELSE LET f == CHOOSE x \in S : TRUE
                                IN  Len(st[f]) + Sum(S \ {f})
             IN  Sum(foundation)

win_condition(st) == score(st) = DeckSize

\* Slot.save over the whole board: fresh copies of every list
save(st) == [s \in Slots |-> st[s]]

\* save_board_state: the old current goes to the past and keeps every list it
\* shares with a slot; the new current is made of copies; the future is cleared.
SaveAlias(B) == [s \in Slots |-> IF B.alias[s] = 0 THEN Len(B.history) + 1
                                 ELSE B.alias[s]]

\* save_board_state without history.append(history_current)
SaveWithoutAppend(B) ==
    [stack |-> B.stack,
     alias |-> B.alias,
     history |-> B.history,
     history_current |-> save(B.stack),
     history_future |-> <<>>]

\* click when receive_from returned false: nothing is saved
Unsaved(B) ==
    [stack |-> B.stack,
     alias |-> B.alias,
     history |-> B.history,
     history_current |-> B.history_current,
     history_future |-> history_future]

save_board_state(B) ==
    [stack |-> B.stack,
     alias |-> SaveAlias(B),
     history |-> Append(B.history, B.history_current),
     history_current |-> save(B.stack),
     history_future |-> <<>>]

\* ToggleSlot.toggle(value): the new _toggle
Toggle(st, old, value) ==
    IF is_empty(st) THEN FALSE
    ELSE IF value THEN value
    ELSE ~old

\* ------------------------------------------------------------------- init
\* deck.shuffle() leaves some permutation of the sorted deck: the one that
\* moves the first cards as P says and leaves the others in place
Shuffled(P) == [i \in 1..DeckSize |-> SortedDeck[IF i <= Len(P) THEN P[i] ELSE i]]
Shuffles == {Shuffled(<<>>), Shuffled(<<1, 4, 3, 5, 6, 2>>)}

\* init(): for card, slot in zip(deck.deck, cycle(tableau)): slot.stack.append(card)
ColumnLen(c) == IF c < DeckSize THEN ((DeckSize - 1 - c) \div NumTableau) + 1 ELSE 0
Column(d, c) == [j \in 1..ColumnLen(c) |-> d[(j - 1) * NumTableau + c + 1]]
Deal(d) == [s \in Slots |-> IF s \in tableau
                            THEN Column(d, s - (NumReserve + NumFoundation))
                            ELSE <<>>]

\* ---------------------------------------------------------------- observers
\* the handler that ran last: its name, what it returned and, for a click that
\* called receive_from, the clicked slot, the result and the number of cards
Last(op, ret, ok, n) == [op |-> op, ret |-> ret, ok |-> ok, n |-> n, dst |-> None]
Moved(X, ok, n) == [op |-> "move", ret |-> TRUE, ok |-> ok, n |-> n, dst |-> X]

\* what click(X) reports when it took the toggle branch
Clicked(X, ret) == [op |-> "click", ret |-> ret, ok |-> FALSE, n |-> 0, dst |-> X]

\* The frame of the last handler has ended: main has run push_to_foundation
\* for it, or it had nothing to run it for.
Settled == ~changed

\* rt.ph: "1" a move was saved, S is the board it left; "1s" its frame has
\* ended, S is the board after it; "2", "2s" then an undo; "3", "3s" then a
\* redo; "4s" the redo's frame has ended.
RtOff == [ph |-> "0", S |-> <<>>]
RtSave(st) == [ph |-> "1", S |-> st]
RtUndo == IF rt.ph = "1" THEN [rt EXCEPT !.ph = "2"]
          ELSE IF rt.ph = "1s" THEN [rt EXCEPT !.ph = "2s"] ELSE RtOff
RtRedo == IF rt.ph = "2" THEN [rt EXCEPT !.ph = "3"]
          ELSE IF rt.ph = "2s" THEN [rt EXCEPT !.ph = "3s"] ELSE RtOff
RtFrame(pushed, differed, st) ==
    IF ~pushed THEN rt
    ELSE IF rt.ph = "1" THEN [ph |-> "1s", S |-> st]
    ELSE IF rt.ph \in {"2", "2s"} THEN rt
    ELSE IF rt.ph = "3s" /\ ~differed THEN [rt EXCEPT !.ph = "4s"]
    ELSE RtOff

ScenSave == IF scen = "moves" THEN "moves" ELSE IF scen = "undos" THEN "final" ELSE "off"
ScenUndo == IF scen \in {"moves", "undos"} THEN "undos" ELSE "off"

HIdle == [phase |-> "off"]

Init ==
    /\ deck \in Shuffles
    /\ stack = Deal(deck)
    /\ alias = [s \in Slots |-> None]
    /\ toggle = [s \in ToggleSlots |-> FALSE]
    /\ peeking_at = [s \in Slots |-> None]
    /\ peek_list = <<>>
    /\ focus = None
    /\ history = <<>>
    /\ history_current = save(stack)
    /\ history_future = <<>>
    /\ pc = "events"
    /\ changed = FALSE
    /\ saves = 0
    /\ steps = 0
    /\ last = Last("init", FALSE, FALSE, 0)
    /\ rt = RtOff
    /\ scen = "moves"
    /\ h = HIdle

\* --------------------------------------------------------------- handlers
\* unfocus() without the call _focus.toggle(False)
UnfocusKeepsMarker(st) == toggle

\* unfocus(): the new toggle map (focus becomes None)
UnfocusToggle(st) ==
    IF focus = None THEN toggle
    ELSE [toggle EXCEPT ![focus] = Toggle(st[focus], @, FALSE)]

\* click(): max_cards=(1 + count_empty(tableau)) * (1 + count_empty(reserve))
max_cards(st) == (1 + count_empty(st, tableau)) * (1 + count_empty(st, reserve))

\* on_click with button 1 at a position get_slot resolves to slot X
click(X) ==
    /\ pc = "events"
    /\ X \in Slots
    /\ IF focus = None \/ X = focus
       THEN IF X \in foundation
            THEN \* slot.toggle raises AttributeError: return False
                 /\ UNCHANGED <<stack, alias, toggle, focus, history,
                                history_current, history_future, changed, saves>>
                 /\ last' = Clicked(X, FALSE)
                 /\ rt' = RtOff
                 /\ UNCHANGED scen
            ELSE LET t == Toggle(stack[X], toggle[X], FALSE)
                 IN  /\ toggle' = [toggle EXCEPT ![X] = t]
                     /\ focus' = IF t THEN X ELSE None
                     /\ changed' = TRUE
                     /\ UNCHANGED <<stack, alias, history, history_current,
                                    history_future, saves>>
                     /\ last' = Clicked(X, TRUE)
                     /\ rt' = RtOff
                     /\ UNCHANGED scen
       ELSE \E r \in {BoardReceive(Board, X, focus, max_cards(stack))} :
            \E S \in {IF r.ok THEN save_board_state(r) ELSE Unsaved(r)} :
                /\ saves' = IF r.ok THEN saves + 1 ELSE saves
                /\ stack' = S.stack
                /\ alias' = S.alias
                /\ history' = S.history
                /\ history_current' = S.history_current
                /\ history_future' = S.history_future
                /\ toggle' = UnfocusToggle(r.stack)
                /\ focus' = None
                /\ changed' = TRUE
                /\ last' = Moved(X, r.ok, Len(r.moved))
                /\ rt' = IF r.ok THEN RtSave(S.stack) ELSE RtOff
                /\ scen' = IF r.ok THEN ScenSave ELSE scen
    /\ UNCHANGED <<deck, peeking_at, peek_list, pc, steps, h>>

\* on_click with button 1 or 3 where get_slot raises ValueError: unfocus()
click_miss(button) ==
    /\ pc = "events"
    /\ toggle' = UnfocusToggle(stack)
    /\ focus' = None
    /\ changed' = (changed \/ focus # None)
    /\ last' = Last(button, focus # None, FALSE, 0)
    /\ rt' = RtOff
    /\ UNCHANGED <<deck, stack, alias, peeking_at, peek_list, history,
                   history_current, history_future, pc, saves, steps, scen, h>>

\* on_click with button 3 at a position get_slot resolves to slot X.  hit:
\* the position is on the slot's rectangle (r.collidepoint); get_slot has
\* tested the same rectangle before it returned X, so the program calls
\* peek_on with hit true only.  index is what Slot.get_index computes from the
\* position: any card of a spread slot, the top card of the others, -1 on an
\* empty slot.
peek(X, hit, index) ==
    /\ pc = "events"
    /\ X \in Slots
    /\ index = Len(stack[X]) - 1 \/ (X \in tableau /\ index \in 0..(Len(stack[X]) - 1))
    /\ IF ~hit
       THEN /\ changed' = TRUE
            /\ last' = Last("peek", TRUE, FALSE, 0)
            /\ UNCHANGED <<peeking_at, peek_list, pc>>
       ELSE IF 0 <= index /\ index < Len(stack[X])
       THEN /\ Len(peek_list) < MaxPeek
            /\ peeking_at' = [peeking_at EXCEPT ![X] = index]
            /\ peek_list' = Append(peek_list, X)
            /\ changed' = TRUE
            /\ last' = Last("peek", TRUE, FALSE, 0)
            /\ UNCHANGED pc
       ELSE \* peek_on raises IndexError, which nothing catches
            /\ pc' = "crashed"
            /\ last' = Last("peek", FALSE, FALSE, 0)
            /\ UNCHANGED <<peeking_at, peek_list, changed>>
    /\ rt' = RtOff
    /\ UNCHANGED <<deck, stack, alias, toggle, focus, history, history_current,
                   history_future, saves, steps, scen, h>>

\* on_click_release with button 3.  pop_iter ends with raise StopIteration()
\* inside a generator: the for loop ends normally before PEP 479 (Python 3.6)
\* and RuntimeError escapes from Python 3.7 on.
on_click_release(pep479) ==
    /\ pc = "events"
    /\ peeking_at' = [s \in Slots |-> IF \E i \in 1..Len(peek_list) : peek_list[i] = s
                                      THEN None ELSE peeking_at[s]]
    /\ peek_list' = <<>>
    /\ IF pep479
       THEN /\ pc' = "crashed"
            /\ UNCHANGED changed
            /\ last' = Last("release", FALSE, FALSE, 0)
       ELSE /\ UNCHANGED pc
            /\ changed' = (changed \/ Len(peek_list) > 0)
            /\ last' = Last("release", Len(peek_list) > 0, FALSE, 0)
    /\ rt' = RtOff
    /\ UNCHANGED <<deck, stack, alias, toggle, focus, history, history_current,
                   history_future, saves, steps, scen, h>>

\* _history_step whose except branch falls through to the push on to_stack
HistoryStepPushOnEmpty(from, to) ==
    IF Len(from) = 0
    THEN [ok |-> FALSE, from |-> from, to |-> Append(to, history_current),
          current |-> history_current, stack |-> stack, alias |-> alias]
    ELSE [ok |-> TRUE,
          from |-> SubSeq(from, 1, Len(from) - 1),
          to |-> Append(to, history_current),
          current |-> from[Len(from)],
          stack |-> [s \in Slots |-> from[Len(from)][s]],
          alias |-> [s \in Slots |-> 0]]

\* _history_step without the loop of slot.load
HistoryStepNoLoad(from, to) ==
    IF Len(from) = 0
    THEN [ok |-> FALSE, from |-> from, to |-> to, current |-> history_current,
          stack |-> stack, alias |-> alias]
    ELSE [ok |-> TRUE,
          from |-> SubSeq(from, 1, Len(from) - 1),
          to |-> Append(to, history_current),
          current |-> from[Len(from)],
          stack |-> stack,
          alias |-> alias]

\* _history_step(from_stack, to_stack), on the (from, to) pair of sequences:
\* the popped snapshot's own lists are loaded into the slots
HistoryStep(from, to) ==
    IF Len(from) = 0
    THEN [ok |-> FALSE, from |-> from, to |-> to, current |-> history_current,
          stack |-> stack, alias |-> alias]
    ELSE [ok |-> TRUE,
          from |-> SubSeq(from, 1, Len(from) - 1),
          to |-> Append(to, history_current),
          current |-> from[Len(from)],
          stack |-> [s \in Slots |-> from[Len(from)][s]],
          alias |-> [s \in Slots |-> 0]]

\* key '-'
step_back ==
    /\ pc = "events"
    /\ \E r \in {HistoryStep(history, history_future)} :
           /\ history' = r.from
           /\ history_future' = r.to
           /\ history_current' = r.current
           /\ stack' = r.stack
           /\ alias' = r.alias
           /\ changed' = (changed \/ r.ok)
           /\ steps' = IF r.ok THEN steps + 1 ELSE steps
           /\ last' = Last("step_back", r.ok, FALSE, 0)
           /\ rt' = IF r.ok THEN RtUndo ELSE RtOff
           /\ scen' = IF r.ok THEN ScenUndo ELSE scen
    /\ UNCHANGED <<deck, toggle, peeking_at, peek_list, focus, pc, saves, h>>

\* key '+'
step_forward ==
    /\ pc = "events"
    /\ \E r \in {HistoryStep(history_future, history)} :
           /\ history_future' = r.from
           /\ history' = r.to
           /\ history_current' = r.current
           /\ stack' = r.stack
           /\ alias' = r.alias
           /\ changed' = (changed \/ r.ok)
           /\ steps' = IF r.ok THEN steps + 1 ELSE steps
           /\ last' = Last("step_forward", r.ok, FALSE, 0)
           /\ rt' = IF r.ok THEN RtRedo ELSE RtOff
           /\ scen' = IF r.ok THEN "off" ELSE scen
    /\ UNCHANGED <<deck, toggle, peeking_at, peek_list, focus, pc, saves, h>>

\* The rest of one iteration of main's loop once process_events has handled
\* the frame's events: push_to_foundation when one of them returned true or
\* (differed) a delayed resize came due, then the loop's test.
EndFrame(differed) ==
    /\ pc = "events"
    /\ differed => ~changed
    /\ \E B \in {IF changed \/ differed THEN push_to_foundation(Board) ELSE Board} :
           /\ stack' = B.stack
           /\ alias' = B.alias
           /\ history' = B.history
           /\ history_current' = B.history_current
           /\ pc' = IF win_condition(B.stack) THEN "won" ELSE "events"
           /\ rt' = RtFrame(changed \/ differed, differed, B.stack)
    /\ changed' = FALSE
    /\ last' = IF differed THEN Last("differed", TRUE, FALSE, 0) ELSE last
    /\ UNCHANGED <<deck, toggle, peeking_at, peek_list, focus, history_future,
                   saves, steps, scen, h>>

\* The counters of save_board_state and _history_step calls are unbounded in
\* the program; a specification follows it as far as the bounds say.
Within(moves, loads) == saves' <= moves /\ steps' <= loads

Next ==
    \/ \E X \in Slots : click(X) /\ Within(MaxMoves, MaxSteps)
    \/ click_miss("miss")
    \/ step_back /\ Within(MaxMoves, MaxSteps)
    \/ step_forward /\ Within(MaxMoves, MaxSteps)
    \/ EndFrame(FALSE)
    \/ EndFrame(TRUE)

Spec == Init /\ [][Next]_vars

NextPeek ==
    \/ \E X \in Slots : click(X) /\ Within(MaxMoves, MaxSteps)
    \/ click_miss("miss")
    \/ click_miss("peek_miss")
    \/ \E X \in Slots : \E index \in (0 - 1)..(DeckSize - 1) : peek(X, TRUE, index)
    \/ \E pep479 \in BOOLEAN : on_click_release(pep479)
    \/ EndFrame(FALSE)
    \/ EndFrame(TRUE)

SpecPeek == Init /\ [][NextPeek]_vars

\* The user clicks and presses '-' or '+', one event in each frame: process_events
\* finds one event in the queue, or none.
NextHistory ==
    \/ \E X \in Slots : ~changed /\ click(X) /\ Within(MaxScenMoves, MaxScenSteps)
    \/ ~changed /\ step_back /\ Within(MaxScenMoves, MaxScenSteps)
    \/ ~changed /\ step_forward /\ Within(MaxScenMoves, MaxScenSteps)
    \/ EndFrame(FALSE)

SpecHistory == Init /\ [][NextHistory]_vars

\* ------------------------------------------------------------ direct calls
\* Stacks a slot of each kind can hold when put or receive_from is called:
\* any cards in a tableau column (the deal appends without put_single), one
\* card at most in a reserve slot, Ace, 2, ... of one suit in a foundation.
Runs(n) == UNION {{q \in [1..k -> Cards] : \A i, j \in 1..k : q[i] = q[j] => i = j}
                  : k \in 0..n}
KindStacks(kind, n) ==
    CASE kind = "tableau" -> Runs(n)
      [] kind = "reserve" -> Runs(Min(n, 1))
      [] kind = "foundation" -> {[i \in 1..k |-> Card(i, su)]
                                 : su \in 0..(NumSuits - 1), k \in 0..Min(n, MaxRank)}
Kinds == {"reserve", "foundation", "tableau"}
Disjoint(a, b) == \A i \in 1..Len(a) : \A j \in 1..Len(b) : a[i] # b[j]

InitUnit ==
    /\ deck = SortedDeck
    /\ stack = Deal(deck)
    /\ alias = [s \in Slots |-> None]
    /\ toggle = [s \in ToggleSlots |-> FALSE]
    /\ peeking_at = [s \in Slots |-> None]
    /\ peek_list = <<>>
    /\ focus = None
    /\ history = <<>>
    /\ history_current = save(stack)
    /\ history_future = <<>>
    /\ pc = "events"
    /\ changed = FALSE
    /\ saves = 0
    /\ steps = 0
    /\ last = Last("init", FALSE, FALSE, 0)
    /\ rt = RtOff
    /\ scen = "moves"
    /\ \E kind \in Kinds : \E dst \in KindStacks(kind, HDstLen) : \E src \in Runs(HSrcLen) :
         /\ Disjoint(dst, src)
         /\ h = [phase |-> "call", kind |-> kind, dst |-> dst, src |-> src]

\* dst.put(src)
UnitPut ==
    /\ h.phase = "call"
    /\ LET r == put(h.kind, h.dst, h.src)
       IN  h' = [phase |-> "put", kind |-> h.kind, dst |-> h.dst, src |-> h.src,
                 ok |-> r.ok, stack |-> r.stack]
    /\ UNCHANGED gameVars

\* dst.receive_from(source, max_cards) where source holds src
UnitReceive(n) ==
    /\ h.phase = "call"
    /\ LET r == receive_from(h.kind, h.dst, h.src, n)
       IN  h' = [phase |-> "received", kind |-> h.kind, dst |-> h.dst, src |-> h.src,
                 max_cards |-> n, ok |-> r.ok, stack |-> r.dst, source |-> r.src]
    /\ UNCHANGED gameVars

NextUnit ==
    \/ UnitPut
    \/ \E n \in 1..(HSrcLen + 1) : UnitReceive(n)

SpecUnit == InitUnit /\ [][NextUnit]_vars

\* ------------------------------------------------------------- properties
Holders(st, card) == {p \in Slots \X (1..DeckSize) : p[2] <= Len(st[p[1]]) /\ st[p[1]][p[2]] = card}

\* C1: card conservation -- in every reachable state each card of the deck is
\* held by exactly one board container, at exactly one position: no card is
\* duplicated and none is lost.
CardConservation == \A card \in Cards : Cardinality(Holders(stack, card)) = 1

\* What a step may do to the stored snapshots when none of them changes:
\* nothing, or save_board_state stores a new current one and drops the future,
\* or a history step moves them between past, current and future.
SnapshotsKept ==
    \/ /\ history' = history
       /\ history_current' = history_current
       /\ history_future' = history_future
    \/ /\ history' = Append(history, history_current)
       /\ history_future' = <<>>
    \/ /\ history # <<>>
       /\ history' = SubSeq(history, 1, Len(history) - 1)
       /\ history_current' = history[Len(history)]
       /\ history_future' = Append(history_future, history_current)
    \/ /\ history_future # <<>>
       /\ history_future' = SubSeq(history_future, 1, Len(history_future) - 1)
       /\ history_current' = history_future[Len(history_future)]
       /\ history' = Append(history, history_current)

\* C2: snapshot immutability -- once a snapshot is stored in the history
\* (past, current or future) its recorded card sequences never change: no
\* put, transfer attempt or auto-promotion on the board changes a stored
\* snapshot, also after an undo or redo has loaded one into the board.
SnapshotImmutability == [][SnapshotsKept]_vars

\* C3: history round-trip -- for a board S reached after a confirmed move, an
\* undo immediately followed by a redo leaves every container with exactly the
\* card sequence it had in S, in the same order.  S and the board compared
\* with it are taken at the same point of main's loop: both when the handler
\* returns, or both when the frame's push_to_foundation has run.
HistoryRoundTrip == rt.ph \in {"3", "4s"} => stack = rt.S

\* the round trip is made on a board that auto-promotion changed after the
\* move's snapshot was taken
HistoryRoundTripWitness == rt.ph = "4s" /\ stack # history_current

\* The placement predicates of the three kinds: whether a card may be placed
\* on a container holding st.
Colour(card) == card.suit % 2
Placeable(kind, st, card) ==
    LET top == st[Len(st)]
    IN  CASE kind = "reserve" -> st = <<>>
          [] kind = "foundation" ->
                IF st = <<>> THEN card.number = 1
                ELSE card.suit = top.suit /\ card.number = top.number + 1
          [] kind = "tableau" ->
                \/ st = <<>>
                \/ card.number = top.number - 1 /\ Colour(card) # Colour(top)

\* each card of added may be placed on st and the cards of added below it
EachAccepted(kind, st, added) ==
    \A i \in 1..Len(added) : Placeable(kind, st \o SubSeq(added, 1, i - 1), added[i])

TransferAllOrNothing ==
    h.phase = "received" =>
        IF h.ok
        THEN \E k \in 1..h.max_cards :
                /\ k <= Len(h.src)
                /\ h.source = SubSeq(h.src, 1, Len(h.src) - k)
                /\ h.stack = h.dst \o SubSeq(h.src, Len(h.src) - k + 1, Len(h.src))
        ELSE h.source = h.src /\ h.stack = h.dst

\* appending the trailing k cards of the call's source to its destination is legal
LegalSuffix(k) == k <= Len(h.src) /\ put(h.kind, h.dst, Suffix(h.src, k)).ok

\* C6: longest-run preference -- when receive_from succeeds with bound max, the
\* number of cards moved is the largest k in 1..max for which appending the
\* trailing k cards of the source to the destination is legal.
LongestRunPreference ==
    (h.phase = "received" /\ h.ok) =>
        LET n == Len(h.src) - Len(h.source)
        IN  /\ n \in 1..h.max_cards
            /\ LegalSuffix(n)
            /\ \A k \in (n + 1)..h.max_cards : ~LegalSuffix(k)

\* every card of st but the first may be placed on the cards below it
PairwiseAccepted(kind, st) ==
    \A i \in 2..Len(st) : Placeable(kind, SubSeq(st, 1, i - 1), st[i])

\* C7 as stated: container rule invariant -- in every reachable state, the deal
\* included, every container's card sequence satisfies its kind's placement
\* predicate between every pair of consecutive cards; every tableau column is
\* at all times a descending, alternating-colour sequence.
ContainerRule == \A s \in Slots : PairwiseAccepted(Kind(s), stack[s])

\* st is the first p cards dealt to column t followed by cards that may each
\* be placed on the card below
DealtThenAccepted(t, st, p) ==
    /\ p <= Len(st)
    /\ SubSeq(st, 1, p) = SubSeq(Column(deck, t - (NumReserve + NumFoundation)), 1, p)
    /\ EachAccepted("tableau", SubSeq(st, 1, p), SubSeq(st, p + 1, Len(st)))

\* C7 as amended: in every reachable state every reserve and foundation slot
\* satisfies its kind's placement predicate between every pair of consecutive
\* cards, and every tableau column is a prefix of the cards init dealt to it,
\* in the order of the deal, followed by cards that each satisfy the tableau
\* predicate on the card below.
ContainerRuleAfterDeal ==
    /\ \A s \in reserve \cup foundation : PairwiseAccepted(Kind(s), stack[s])
    /\ \A t \in tableau :
          \E p \in 0..ColumnLen(t - (NumReserve + NumFoundation)) :
              DealtThenAccepted(t, stack[t], p)

\* a column that still holds dealt cards out of order, with a card placed by
\* a move on top of them
ContainerRuleWitness ==
    \E t \in tableau :
        /\ ~PairwiseAccepted("tableau", stack[t])
        /\ \A p \in 0..ColumnLen(t - (NumReserve + NumFoundation)) :
              DealtThenAccepted(t, stack[t], p) => p < Len(stack[t])
        /\ last.op = "move" /\ last.ok /\ last.dst = t

\* C8: foundation ordering -- in every state reachable by moves,
\* auto-promotions, undos and redos, each foundation slot's card sequence is
\* empty or is exactly Ace, 2, ..., n of a single suit.
FoundationOrdering ==
    \A f \in foundation :
        /\ Len(stack[f]) <= MaxRank
        /\ \A i \in 1..Len(stack[f]) : stack[f][i] = Card(i, stack[f][1].suit)

\* a foundation slot holding Ace and 2 on a board an undo or redo loaded
FoundationOrderingWitness ==
    /\ \E f \in foundation : Len(stack[f]) >= 2
    /\ \E s \in Slots : alias[s] # None

\* the step is a click that called X.receive_from(_focus)
MoveStep == focus # None /\ focus' = None /\ last'.op = "move"

\* a move of a card onto an occupied reserve slot fails and the slot keeps
\* its card
PutOnOccupiedReserveFails ==
    (MoveStep /\ last'.dst \in reserve /\ stack[last'.dst] # <<>> /\ stack[focus] # <<>>)
        => (~last'.ok /\ stack'[last'.dst] = stack[last'.dst])

\* C9: reserve capacity -- in every state reachable by moves, undos and redos
\* each reserve slot holds 0 or 1 card; a put of a card on an occupied reserve
\* slot fails and the slot still holds exactly its original card.
ReserveCapacity ==
    /\ [](\A r \in reserve : Len(stack[r]) <= 1)
    /\ [][PutOnOccupiedReserveFails]_vars

\* a card was refused by a reserve slot that holds one
ReserveCapacityWitness ==
    /\ last.op = "move"
    /\ last.dst \in reserve
    /\ ~last.ok
    /\ Len(stack[last.dst]) = 1

\* the step is a click whose receive_from succeeded: save_board_state ran
SaveStep == MoveStep /\ last'.ok

\* the save empties the future and appends what was the current snapshot when
\* save_board_state was called to the past
SaveEffect ==
    SaveStep =>
        LET r == BoardReceive(Board, last'.dst, focus, max_cards(stack))
        IN  /\ history_future' = <<>>
            /\ history' = Append(r.history, r.history_current)

SnapshotIncludesPromotion ==
    (last.op = "move" /\ last.ok /\ Settled) =>
        \A s \in Slots : history_current[s] = stack[s]

\* the step is a '-' (undo) or a '+' (redo) that found a snapshot to pop
UndoStep == steps' = steps + 1 /\ last'.op = "step_back"
RedoStep == steps' = steps + 1 /\ last'.op = "step_forward"

\* from loses its top snapshot, which becomes the current one, and to gains
\* the previous current one
Popped(from, to, current, from2, to2, current2) ==
    /\ from # <<>>
    /\ from2 = SubSeq(from, 1, Len(from) - 1)
    /\ current2 = from[Len(from)]
    /\ to2 = Append(to, current)

\* C12: undo effect -- when the past is non-empty, after an undo has been fully
\* processed the most recent snapshot has been popped from the past, the
\* previous current one pushed on the future, the popped one is the new
\* current, and once the event's frame has ended every container holds the
\* card sequence that snapshot records for it; redo is symmetric.
UndoEffect ==
    /\ [][/\ UndoStep => Popped(history, history_future, history_current,
                                history', history_future', history_current')
          /\ RedoStep => Popped(history_future, history, history_current,
                                history_future', history', history_current')]_vars
    /\ []((last.op \in {"step_back", "step_forward"} /\ last.ret /\ Settled) =>
            \A s \in Slots : stack[s] = history_current[s])

\* a '-' or a '+' handled now (the end of a frame keeps last as it is)
UndoEvent == last'.op = "step_back" /\ last' # last
RedoEvent == last'.op = "step_forward" /\ last' # last

\* C13: empty-history no-op -- an undo with an empty past, or a redo with an
\* empty future, leaves the containers, the current snapshot, the past and the
\* future unchanged, and reports no change.
EmptyHistoryNoOp ==
    [][((UndoEvent /\ history = <<>>) \/ (RedoEvent /\ history_future = <<>>)) =>
           /\ ~last'.ret
           /\ UNCHANGED <<stack, history_current, history, history_future>>]_vars

\* '-' was pressed once more than there were snapshots to go back to
EmptyHistoryNoOpWitness ==
    last.op = "step_back" /\ ~last.ret /\ history_future # <<>>

\* a primary-select on the container last'.dst while another one has the focus
SelectOther == focus # None /\ last'.op = "move"

\* C14: in Focused(F) a primary-select on X # F always ends in Idle with F's
\* marker off; when the transfer succeeded exactly one snapshot is recorded
\* (the past grows by one snapshot, the future is emptied); when
\* it failed no container's cards and none of past, current, future changed.
SelectOtherEffect ==
    [][SelectOther =>
           /\ last'.dst # focus
           /\ focus' = None
           /\ ~toggle'[focus]
           /\ IF last'.ok
              THEN /\ Len(history') = Len(history) + 1
                   /\ history_future' = <<>>
              ELSE UNCHANGED <<stack, history, history_current, history_future>>]_vars

\* a primary-select on the container last'.dst that took click's toggle branch
\* (the end of a frame resets changed)
SelectEvent == last'.op = "click" /\ last'.ret /\ changed'

\* C15: a primary-select in Idle on a non-empty Reserve or Tableau X gives
\* Focused(X), on an empty one stays Idle, and in Focused(F) on F gives Idle;
\* in all three cases no container's card sequence and no history stack has
\* changed once the event is fully processed, that is after the handler and
\* after the promotion pass that ends the event's frame.
SelectionEffect ==
    [][SelectEvent =>
           /\ focus' = IF focus = None /\ ~is_empty(stack[last'.dst])
                       THEN last'.dst ELSE None
           /\ UNCHANGED <<stack, history, history_current, history_future>>
           /\ ~changed =>
                  \E B \in {push_to_foundation(Board')} :
                      /\ B.stack = stack
                      /\ B.history = history
                      /\ B.history_current = history_current]_vars

\* C16: focus marker consistency -- at most one container has its selection
\* marker on, and a container's marker is on exactly when that container is
\* the current focus.
MarkerConsistency ==
    /\ Cardinality({s \in ToggleSlots : toggle[s]}) <= 1
    /\ \A s \in ToggleSlots : toggle[s] <=> (focus = s)

\* a container is selected after a move was made, while another selectable
\* container holds cards
MarkerConsistencyWitness ==
    /\ focus # None
    /\ history # <<>>
    /\ \E s \in ToggleSlots : s # focus /\ ~is_empty(stack[s])

\* the number of cards the destination has gained
Relocated == Len(stack'[last'.dst]) - Len(stack[last'.dst])

\* C17: move-size bound -- the number of cards relocated by one primary-select
\* move never exceeds (1 + empty Reserve containers) x (1 + empty Tableau
\* containers), counted on the board before the move, and a move whose
\* destination is a Reserve relocates exactly one card.
MoveSizeBound ==
    [][(SelectOther /\ last'.ok) =>
           /\ Relocated <= (1 + Cardinality({s \in reserve : stack[s] = <<>>}))
                              * (1 + Cardinality({s \in tableau : stack[s] = <<>>}))
           /\ last'.dst \in reserve => Relocated = 1]_vars

\* C18: no event is fatal -- no event (a peek on an empty container, a
\* release, a click anywhere) ends the engine with an unhandled error.
NoFatalEvent == pc # "crashed"

\* a right-button release handled now (the end of a frame keeps last, and no
\* container is peeking at the end of a frame that follows a release)
ReleaseEvent ==
    last'.op = "release" /\ (last' # last \/ peek_list # <<>> \/ pc' # pc)

\* C19: peek release -- a release clears the peek index of every peeking
\* container, leaves the peeking set empty, and returns true exactly when at
\* least one container was peeking.
PeekRelease ==
    [][ReleaseEvent =>
           /\ \A i \in 1..Len(peek_list) : peeking_at'[peek_list[i]] = None
           /\ peek_list' = <<>>
           /\ pc' = "events"
           /\ last'.ret = (peek_list # <<>>)]_vars

\* ------------------------------------------------- init(), at full size
\* The deal of init() on the program's own board and deck.  h holds the
\* position of the dealing loop and the slots' stacks.
FullSuits == 4
FullRanks == 13
FullReserve == 4
FullFoundation == 4
FullTableau == 8
MaxCut == 2

\* deck.deck
FullDeck ==
    [i \in 1..(FullSuits * FullRanks) |->
        [number |-> ((i - 1) % FullRanks) + 1, suit |-> (i - 1) \div FullRanks]]

\* deck.shuffle() leaves some permutation of the deck: here the one that
\* cuts it after r cards
Cut(d, r) == [i \in 1..Len(d) |-> d[((i - 1 + r) % Len(d)) + 1]]

\* a dealing that fills one column after the other instead of cycling over
\* the columns
DealSlotByColumn(i) == i \div 7

\* zip(deck.deck, cycle(tableau)): the column of the i-th card, i from 0
DealSlot(i) == i % FullTableau

\* the panels of the board as save_board_state records them
DealBoard == [reserve |-> h.reserve, foundation |-> h.foundation,
              tableau |-> h.tableau]

InitDeal ==
    /\ deck = SortedDeck
    /\ stack = Deal(deck)
    /\ alias = [s \in Slots |-> None]
    /\ toggle = [s \in ToggleSlots |-> FALSE]
    /\ peeking_at = [s \in Slots |-> None]
    /\ peek_list = <<>>
    /\ focus = None
    /\ history = <<>>
    /\ history_current = save(stack)
    /\ history_future = <<>>
    /\ pc = "events"
    /\ changed = FALSE
    /\ saves = 0
    /\ steps = 0
    /\ last = Last("init", FALSE, FALSE, 0)
    /\ rt = RtOff
    /\ scen = "moves"
    /\ \E r \in 0..MaxCut :
         h = [phase |-> "deal", deck |-> Cut(FullDeck, r), i |-> 0,
              reserve |-> [s \in 0..(FullReserve - 1) |-> <<>>],
              foundation |-> [s \in 0..(FullFoundation - 1) |-> <<>>],
              tableau |-> [s \in 0..(FullTableau - 1) |-> <<>>],
              \* history_current = None is written as the empty tuple
              history |-> <<>>, current |-> <<>>, future |-> <<>>]

\* one iteration of init's dealing loop: slot.stack.append(card)
DealCard ==
    /\ h.phase = "deal"
    /\ h.i < Len(h.deck)
    /\ h' = [h EXCEPT !.i = @ + 1,
                      !.tableau[DealSlot(h.i)] = Append(@, h.deck[h.i + 1])]
    /\ UNCHANGED gameVars

\* init's save_board_state() once the deck is dealt
DealSave ==
    /\ h.phase = "deal"
    /\ h.i = Len(h.deck)
    /\ h' = [h EXCEPT !.phase = "dealt",
                      !.history = IF h.current # <<>> THEN Append(@, h.current) ELSE @,
                      !.current = DealBoard,
                      !.future = <<>>]
    /\ UNCHANGED gameVars

NextDeal == DealCard \/ DealSave

SpecDeal == InitDeal /\ [][NextDeal]_vars

\* C20: initial deal -- right after initialisation the i-th card of the
\* shuffled deck (i = 0..51) lies at depth i div 8 of Tableau column i mod 8
\* (columns 0-3 hold 7 cards, columns 4-7 hold 6), every Reserve and Foundation
\* container is empty, past and future are empty, and the current snapshot
\* equals the dealt board.
InitialDeal ==
    h.phase = "dealt" =>
        /\ \A i \in 0..51 : h.tableau[i % 8][(i \div 8) + 1] = h.deck[i + 1]
        /\ \A c \in 0..7 : Len(h.tableau[c]) = IF c <= 3 THEN 7 ELSE 6
        /\ \A s \in DOMAIN h.reserve : h.reserve[s] = <<>>
        /\ \A s \in DOMAIN h.foundation : h.foundation[s] = <<>>
        /\ h.history = <<>> /\ h.future = <<>>
        /\ h.current = DealBoard

\* a cut deck has been dealt and saved
InitialDealWitness == h.phase = "dealt" /\ h.deck # FullDeck

\* ------------------------------------- put of one card, at full size
\* slot.put(card) on the program's own deck.  put_single reads the topmost
\* card only: a foundation holds a suit from its Ace up, a reserve or a column
\* one card, or nothing.
FullCards == {FullDeck[i] : i \in 1..Len(FullDeck)}

SuitRun(suit, n) == [i \in 1..n |-> [number |-> i, suit |-> suit]]

PutStacks(kind) ==
    IF kind = "foundation"
    THEN {SuitRun(suit, n) : suit \in 0..(FullSuits - 1), n \in 0..FullRanks}
    ELSE {<<>>} \cup {<<c>> : c \in FullCards}

\* Slot.put(cards) when cards is a Card: self.put_single(cards)
PutCard(kind, st, card) ==
    [ok |-> put_single(kind, st, card),
     stack |-> IF put_single(kind, st, card) THEN Append(st, card) ELSE st]

InitPut ==
    /\ deck = SortedDeck
    /\ stack = Deal(deck)
    /\ alias = [s \in Slots |-> None]
    /\ toggle = [s \in ToggleSlots |-> FALSE]
    /\ peeking_at = [s \in Slots |-> None]
    /\ peek_list = <<>>
    /\ focus = None
    /\ history = <<>>
    /\ history_current = save(stack)
    /\ history_future = <<>>
    /\ pc = "events"
    /\ changed = FALSE
    /\ saves = 0
    /\ steps = 0
    /\ last = Last("init", FALSE, FALSE, 0)
    /\ rt = RtOff
    /\ scen = "moves"
    /\ \E kind \in Kinds : \E dst \in PutStacks(kind) : \E card \in FullCards :
         /\ \A i \in 1..Len(dst) : dst[i] # card
         /\ h = [phase |-> "call", kind |-> kind, dst |-> dst, card |-> card]

\* dst.put(card)
UnitPutCard ==
    /\ h.phase = "call"
    /\ \E r \in {PutCard(h.kind, h.dst, h.card)} :
           h' = [phase |-> "put", kind |-> h.kind, dst |-> h.dst, card |-> h.card,
                 ok |-> r.ok, stack |-> r.stack]
    /\ UNCHANGED gameVars

NextPut == UnitPutCard

SpecPut == InitPut /\ [][NextPut]_vars

NextWin ==
    \/ \E X \in Slots : click(X) /\ Within(MaxWinMoves, MaxWinSteps)
    \/ click_miss("miss")
    \/ step_back /\ Within(MaxWinMoves, MaxWinSteps)
    \/ step_forward /\ Within(MaxWinMoves, MaxWinSteps)
    \/ EndFrame(FALSE)
    \/ EndFrame(TRUE)

SpecWin == Init /\ [][NextWin]_vars

\* the number of cards the Foundation containers hold
FoundationTotal ==
    Cardinality(UNION {{<<f, i>> : i \in 1..Len(stack[f])} : f \in foundation})

\* C22: win detection -- in every reachable state is_won() is true if and only
\* if the Foundation containers together hold the whole deck, score() equals
\* that total, and the game loop processes no further event once is_won() is
\* true: the only step out of a won board is the loop's exit.
WinDetection ==
    /\ [](/\ score(stack) = FoundationTotal
          /\ win_condition(stack) <=> (FoundationTotal = DeckSize))
    /\ [][win_condition(stack) => pc' = "won"]_vars

\* a secondary-button event handled now: a peek on a container, a peek at a
\* position that hits no container, or a release (the end of a frame that
\* follows one resets changed or changes nothing)
PeekEvent ==
    last'.op \in {"peek", "peek_miss", "release"} /\ (changed => changed')

\* C23: peek events leave the game state alone -- a secondary-peek event (on a
\* container, or at a position that hits no container) and a
\* secondary-release event never change the focus or any selected marker, any
\* container's card sequence, or the past, current and future history.
PeekLeavesGame ==
    [][PeekEvent =>
           UNCHANGED <<focus, toggle, stack, history, history_current,
                       history_future>>]_vars

\* the top card of column t may be placed on a Foundation container
Promotable(t) ==
    /\ stack[t] # <<>>
    /\ \E f \in foundation : Placeable("foundation", stack[f], stack[t][Len(stack[t])])

\* C24: auto-promotion cascades to completion -- once the auto-promotion
\* triggered by a confirmed move has run, no Tableau column's top card can
\* legally be placed on any Foundation container.
PromotionComplete ==
    (last.op = "move" /\ last.ok /\ Settled) => \A t \in tableau : ~Promotable(t)

\* C25: the focused container is never empty -- in every reachable state in
\* which a container F has the focus, F holds at least one card, also after
\* undo, redo and auto-promotion while F is focused.
FocusedNeverEmpty == focus # None => stack[focus] # <<>>

\* C26: success means cards moved -- receive_from returns success only if at
\* least one card was transferred, and called with an empty source it returns
\* failure for every destination kind and every max.
SuccessMeansMoved ==
    h.phase = "received" =>
        /\ h.ok => Len(h.stack) > Len(h.dst) /\ Len(h.source) < Len(h.src)
        /\ h.src = <<>> => ~h.ok

====
